---- MODULE Spec2Model ----
(***************************************************************************)
(* State-machine model of PocketOptionDashboard                            *)
(* (src/static/js/dashboard.js): the stores of the dashboard object, the   *)
(* DOM regions it writes, the two charts, the socket handlers and the      *)
(* asynchronous loadInitialData.  Every handler runs to completion, so     *)
(* every handler (and every stretch of loadInitialData between two awaits) *)
(* is one action.                                                          *)
(***************************************************************************)
EXTENDS Integers, Sequences, FiniteSets, TLC

VARIABLES
    signals,          \* this.signals
    connectionStats,  \* this.connectionStats
    performanceData,  \* this.performanceData
    chartLabels,      \* this.performanceChart.data.labels
    chartData,        \* this.performanceChart.data.datasets[0].data
    distData,         \* this.distributionChart.data.datasets[0].data
    container,        \* children of #signals-container, first child first
    connView,         \* text of the four connection status elements
    perfView,         \* text of the six performance elements
    notifications,    \* notification badges attached to document.body
    lastUpdate,       \* text of #last-update
    now,              \* the clock read by new Date()
    subscribed,       \* the socket handlers are registered
    socketConnected,  \* the socket.io channel is up
    emitted,          \* number of 'get_initial_data' messages emitted
    loads,            \* the invocations of loadInitialData, in call order
    nSignals,         \* number of new_signal events the server has sent
    nPerf,            \* number of performance_update events the server has sent
    appended,         \* history: every value pushed to the performance chart
    lastOp,           \* history: the handler that ran last
    lastArg           \* history: the payload or argument it was given

vars == <<signals, connectionStats, performanceData, chartLabels, chartData,
          distData, container, connView, perfView, notifications, lastUpdate,
          now, subscribed, socketConnected, emitted, loads, nSignals, nPerf,
          appended, lastOp, lastArg>>

(***************************************************************************)
(* Bounds of the model.                                                    *)
(***************************************************************************)
MaxLoads == 2      \* invocations of loadInitialData (startup + refresh clicks)
MaxPushes == 22    \* new_signal events
FreePushes == 1    \* new_signal events whose asset and direction vary
MaxPerf == 22      \* performance_update events
FreePerf == 2      \* performance_update events whose payload varies
MaxEmits == 2      \* 'get_initial_data' messages
MaxTicks == 3      \* advances of the clock
SomePushes == 1    \* new_signal events, in the specification of all handlers
SomePerf == 1      \* performance_update events, in the same

(***************************************************************************)
(* Program constants.                                                      *)
(***************************************************************************)
ChartCapacity == 20       \* points kept on the performance chart
VisibleCapacity == 20     \* signal elements kept by addSignalToUI
NotificationTTL == 3000   \* delay of the notification removal timer

(***************************************************************************)
(* Sequence helpers.                                                       *)
(***************************************************************************)
Min(a, b) == IF a <= b THEN a ELSE b

\* Array.prototype.shift: the array without its first element.
Shift(s) == SubSeq(s, 2, Len(s))

\* removeChild(lastChild): the children without the last one.
DropLast(s) == SubSeq(s, 1, Len(s) - 1)

\* The last n elements of s (all of s when it is shorter).
LastN(s, n) == IF Len(s) <= n THEN s ELSE SubSeq(s, Len(s) - n + 1, Len(s))

\* sigs.filter(s => s.direction === d).length
CountDirection(sigs, d) ==
    Cardinality({i \in 1..Len(sigs) : sigs[i].direction = d})

(***************************************************************************)
(* Payloads.                                                               *)
(***************************************************************************)
Assets == {"EURUSD", "GBPUSD"}
Directions == {"CALL", "PUT", "HOLD"}

Signal(ts, a, d, tf, c) ==
    [timestamp |-> ts, asset |-> a, direction |-> d, timeframe |-> tf,
     confidence |-> c]

\* The k-th signal of the server when nothing varies.
DefaultSignal(k) == Signal(k, "EURUSD", "CALL", "1m", 87)

\* Payloads the k-th new_signal event may carry.
PushInputs(k) ==
    IF k <= FreePushes
    THEN {Signal(k, a, d, "1m", 87) : a \in Assets, d \in Directions}
    ELSE {DefaultSignal(k)}

\* Signals older than every pushed one, most recent first.
OldSignals == <<Signal(0, "GBPUSD", "PUT", "5m", 60),
                Signal(-1, "EURUSD", "HOLD", "1m", 40)>>

\* Bodies GET /api/signals may return once the server has sent n signals.
Snapshots(n) ==
    {<<>>, OldSignals}
      \cup (IF n > 0 THEN {<<DefaultSignal(n)>> \o OldSignals} ELSE {})

Perf(t, w, l, p, a) ==
    [total_signals |-> t, winning_signals |-> w, losing_signals |-> l,
     total_profit |-> p, active_assets |-> a]

\* PerformanceSnapshot payloads; total_profit is in cents.
PerfPayloads == {Perf(0, 0, 0, 0, 0), Perf(10, 6, 4, 1250, 2),
                 Perf(3, 1, 2, -500, 1)}

\* Payloads the (k+1)-th performance_update event may carry.
PerfInputs(k) ==
    IF k < FreePerf THEN PerfPayloads
    ELSE {Perf(k + 1, k + 1, 0, 100 * (k + 1), 1)}

\* A body of GET /api/signals with 3 CALL and 2 PUT signals of both assets.
MixedSnapshot ==
    <<Signal(0, "EURUSD", "CALL", "1m", 90),
      Signal(-1, "GBPUSD", "PUT", "5m", 80),
      Signal(-2, "EURUSD", "CALL", "5m", 70),
      Signal(-3, "GBPUSD", "CALL", "1m", 60),
      Signal(-4, "EURUSD", "PUT", "1m", 50)>>

\* A body of GET /api/signals with one signal more than the 20 that
\* addSignalToUI keeps.
LongSnapshot ==
    [i \in 1..(VisibleCapacity + 1) |->
        Signal(1 - i, IF i % 2 = 0 THEN "EURUSD" ELSE "GBPUSD", "HOLD",
               "1m", 50)]

\* Bodies of GET /api/signals, the longer ones included.
WideSnapshots(n) == Snapshots(n) \cup {MixedSnapshot, LongSnapshot}

\* Bodies of GET /api/signals, those included that already hold the signal
\* whose new_signal event is still on its way to the client.
RacingSnapshots(n) ==
    Snapshots(n) \cup {<<DefaultSignal(n + 1)>> \o OldSignals}

\* A performance payload that carries total_profit.
HasProfit(pd) == "total_profit" \in DOMAIN pd

\* A signal payload that carries direction.
HasDirection(s) == "direction" \in DOMAIN s

\* A PerformanceSnapshot payload without total_profit.
MalformedPerf ==
    [total_signals |-> 1, winning_signals |-> 1, losing_signals |-> 0,
     active_assets |-> 1]

\* The k-th signal of the server, sent without direction.
MalformedSignal(k) ==
    [timestamp |-> k, asset |-> "EURUSD", timeframe |-> "1m",
     confidence |-> 87]

\* last_message = NoMessage stands for null.
NoMessage == 0

Conn(c, a, lm, mc) ==
    [websocket_connected |-> c, authenticated |-> a, last_message |-> lm,
     message_count |-> mc]

\* ConnectionState payloads.
ConnPayloads == {Conn(TRUE, TRUE, 5, 3), Conn(TRUE, FALSE, NoMessage, 0),
                 Conn(FALSE, FALSE, NoMessage, 0)}

(***************************************************************************)
(* Rendering functions.                                                    *)
(***************************************************************************)
\* updateConnectionStatus: the four status elements, from connectionStats.
updateConnectionStatus(cs) ==
    [connectionStatus |-> IF cs.websocket_connected THEN "connected"
                          ELSE "disconnected",
     authStatus |-> IF cs.authenticated THEN "authenticated"
                    ELSE "not-authenticated",
     messageCount |-> cs.message_count,
     lastActivity |-> IF cs.last_message = NoMessage
                      THEN [never |-> TRUE, at |-> 0]
                      ELSE [never |-> FALSE, at |-> cs.last_message]]

\* (winning / total * 100).toFixed(1), in tenths of a percent; 0 (not 0.0)
\* when there is no signal.
WinRate(total, winning) ==
    IF total > 0
    THEN [fixed |-> TRUE, tenths |-> (2000 * winning + total) \div (2 * total)]
    ELSE [fixed |-> FALSE, tenths |-> 0]

\* updatePerformanceStats: the six performance elements.
updatePerformanceStats(pd) ==
    [totalSignals |-> pd.total_signals,
     winningSignals |-> pd.winning_signals,
     losingSignals |-> pd.losing_signals,
     totalProfit |-> pd.total_profit,
     activeAssets |-> pd.active_assets,
     winRate |-> WinRate(pd.total_signals, pd.winning_signals)]

\* updatePerformanceStats on a payload without total_profit: the first three
\* elements are written, then total_profit.toFixed throws a TypeError.
updatePerformanceStatsThrows(view, pd) ==
    [view EXCEPT !.totalSignals = pd.total_signals,
                 !.winningSignals = pd.winning_signals,
                 !.losingSignals = pd.losing_signals]

\* String.prototype.toLowerCase on the three directions.
LowerDirection(d) ==
    CASE d = "CALL" -> "call" [] d = "PUT" -> "put" [] d = "HOLD" -> "hold"

\* createSignalElement: the row rendered for one signal.
createSignalElement(s) ==
    [time |-> s.timestamp, asset |-> s.asset,
     class |-> LowerDirection(s.direction), direction |-> s.direction,
     timeframe |-> s.timeframe, confidence |-> s.confidence]

\* displaySignals: the container emptied, then one row per signal, in order.
displaySignals(sigs) == [i \in 1..Len(sigs) |-> createSignalElement(sigs[i])]

\* addSignalToUI removing the first child instead of the last on overflow.
addSignalToUI_dropsFirst(rows, s) ==
    LET inserted == <<createSignalElement(s)>> \o rows
    IN  IF Len(inserted) > VisibleCapacity THEN Shift(inserted)
        ELSE inserted

\* addSignalToUI: the row inserted before the first child, then the last
\* child removed when more than 20 children remain.
addSignalToUI(rows, s) ==
    LET inserted == <<createSignalElement(s)>> \o rows
    IN  IF Len(inserted) > VisibleCapacity THEN DropLast(inserted)
        ELSE inserted

\* The performance chart popping the newest point instead of shifting the
\* oldest one.
PushPoint_evictsNewest(points, x) ==
    LET pushed == Append(points, x)
    IN  IF Len(pushed) > ChartCapacity THEN DropLast(pushed) ELSE pushed

\* updateCharts, performance chart: push, then shift when longer than 20.
PushPoint(points, x) ==
    LET pushed == Append(points, x)
    IN  IF Len(pushed) > ChartCapacity THEN Shift(pushed) ELSE pushed

\* The distribution chart with the counts of CALL and PUT exchanged.
Distribution_swapped(sigs) ==
    <<CountDirection(sigs, "PUT"), CountDirection(sigs, "CALL"),
      CountDirection(sigs, "HOLD")>>

\* updateCharts, distribution chart: counts of CALL, PUT and HOLD in
\* this.signals.
Distribution(sigs) ==
    <<CountDirection(sigs, "CALL"), CountDirection(sigs, "PUT"),
      CountDirection(sigs, "HOLD")>>

\* showNotification reusing a visible badge that carries the same message.
showNotification_dedup(badges, message, type) ==
    IF \E i \in 1..Len(badges) : badges[i].message = message THEN badges
    ELSE Append(badges, [message |-> message, type |-> type,
                         expiresAt |-> now + NotificationTTL])

\* showNotification: one more badge on document.body, with its removal timer.
showNotification(badges, message, type) ==
    Append(badges, [message |-> message, type |-> type,
                    expiresAt |-> now + NotificationTTL])

\* performanceData.total_profit, undefined when the field is missing.
ProfitOf(pd) == IF HasProfit(pd) THEN pd.total_profit ELSE "undefined"

\* updateCharts: both charts, from performanceData pd and this.signals.
updateCharts(pd) ==
    /\ chartLabels' = PushPoint(chartLabels, now)
    /\ chartData' = PushPoint(chartData, ProfitOf(pd))
    /\ distData' = Distribution(signals')
    /\ appended' = Append(appended, ProfitOf(pd))

(***************************************************************************)
(* loadInitialData.                                                        *)
(***************************************************************************)
Urls == {"/api/signals", "/api/performance", "/api/connection"}

InProgress == {"fetch_signals", "json_signals", "fetch_performance",
               "json_performance", "fetch_connection", "json_connection"}

\* loadInitialData starting the three fetches before its first await.
NewLoad_allAtOnce ==
    [pc |-> "fetch_signals", issued |-> Urls, applied |-> {},
     failed |-> "none"]

\* A call of loadInitialData runs up to its first await: fetch('/api/signals').
NewLoad ==
    [pc |-> "fetch_signals", issued |-> {"/api/signals"}, applied |-> {},
     failed |-> "none"]

\* The request a load is waiting on at each await.
Awaited(pc) ==
    CASE pc \in {"fetch_signals", "json_signals"} -> "/api/signals"
      [] pc \in {"fetch_performance", "json_performance"} -> "/api/performance"
      [] pc \in {"fetch_connection", "json_connection"} -> "/api/connection"
      [] OTHER -> "none"

(***************************************************************************)
(* Initial state: the constructor has run (init): charts created empty,    *)
(* socket handlers registered, loadInitialData started.                    *)
(***************************************************************************)
Init ==
    /\ signals = <<>>
    /\ connectionStats = Conn(FALSE, FALSE, NoMessage, 0)
    /\ performanceData =
         [total_signals |-> 0, winning_signals |-> 0, losing_signals |-> 0,
          total_profit |-> 0, active_assets |-> 0,
          connection_status |-> "disconnected"]
    /\ chartLabels = <<>>
    /\ chartData = <<>>
    /\ distData = <<0, 0, 0>>
    /\ container = <<>>
    /\ connView = [connectionStatus |-> "", authStatus |-> "",
                   messageCount |-> 0,
                   lastActivity |-> [never |-> TRUE, at |-> 0]]
    /\ perfView = [totalSignals |-> 0, winningSignals |-> 0,
                   losingSignals |-> 0, totalProfit |-> 0, activeAssets |-> 0,
                   winRate |-> [fixed |-> FALSE, tenths |-> 0]]
    /\ notifications = <<>>
    /\ lastUpdate = 0
    /\ now = 0
    /\ subscribed = TRUE
    /\ socketConnected = FALSE
    /\ emitted = 0
    /\ loads = <<NewLoad>>
    /\ nSignals = 0
    /\ nPerf = 0
    /\ appended = <<>>
    /\ lastOp = "init"
    /\ lastArg = <<>>

(***************************************************************************)
(* Socket handlers (setupSocketListeners).                                 *)
(***************************************************************************)
\* The connection_update handler registered only once no load is running.
connection_update_afterLoad(stats) ==
    /\ subscribed /\ socketConnected
    /\ \A l \in 1..Len(loads) : loads[l].pc \notin InProgress
    /\ connectionStats' = stats
    /\ connView' = updateConnectionStatus(stats)
    /\ lastOp' = "connection_update"
    /\ lastArg' = stats
    /\ UNCHANGED <<signals, performanceData, chartLabels, chartData, distData,
                   container, perfView, notifications, lastUpdate, now,
                   subscribed, socketConnected, emitted, loads, nSignals,
                   nPerf, appended>>

\* The connection_update handler counting the event into message_count
\* instead of taking the payload's count.
connection_update_counts(stats) ==
    /\ subscribed /\ socketConnected
    /\ connectionStats' =
         [stats EXCEPT !.message_count = connectionStats.message_count + 1]
    /\ connView' = updateConnectionStatus(connectionStats')
    /\ lastOp' = "connection_update"
    /\ lastArg' = stats
    /\ UNCHANGED <<signals, performanceData, chartLabels, chartData, distData,
                   container, perfView, notifications, lastUpdate, now,
                   subscribed, socketConnected, emitted, loads, nSignals,
                   nPerf, appended>>

\* The connection_update handler announcing the update with a notification.
connection_update_notifies(stats) ==
    /\ subscribed /\ socketConnected
    /\ connectionStats' = stats
    /\ connView' = updateConnectionStatus(stats)
    /\ notifications' =
         showNotification(notifications, <<"Connection updated">>, "success")
    /\ lastOp' = "connection_update"
    /\ lastArg' = stats
    /\ UNCHANGED <<signals, performanceData, chartLabels, chartData, distData,
                   container, perfView, lastUpdate, now, subscribed,
                   socketConnected, emitted, loads, nSignals, nPerf,
                   appended>>

\* socket.on('connection_update', stats => ...)
connection_update(stats) ==
    /\ subscribed /\ socketConnected
    /\ connectionStats' = stats
    /\ connView' = updateConnectionStatus(stats)
    /\ lastOp' = "connection_update"
    /\ lastArg' = stats
    /\ UNCHANGED <<signals, performanceData, chartLabels, chartData, distData,
                   container, perfView, notifications, lastUpdate, now,
                   subscribed, socketConnected, emitted, loads, nSignals,
                   nPerf, appended>>

\* The performance_update handler without its call of updateCharts.
performance_update_noChart(data) ==
    /\ subscribed /\ socketConnected
    /\ performanceData' = data
    /\ perfView' = updatePerformanceStats(data)
    /\ nPerf' = nPerf + 1
    /\ lastOp' = "performance_update"
    /\ lastArg' = data
    /\ UNCHANGED <<signals, connectionStats, chartLabels, chartData, distData,
                   container, connView, notifications, lastUpdate, now,
                   subscribed, socketConnected, emitted, loads, nSignals,
                   appended>>

\* socket.on('performance_update', data => ...)
performance_update(data) ==
    /\ subscribed /\ socketConnected
    /\ performanceData' = data
    /\ signals' = signals
    /\ IF HasProfit(data)
       THEN /\ perfView' = updatePerformanceStats(data)
            /\ updateCharts(data)
            /\ lastOp' = "performance_update"
       ELSE \* updatePerformanceStats throws: the handler ends there
            /\ perfView' = updatePerformanceStatsThrows(perfView, data)
            /\ UNCHANGED <<chartLabels, chartData, distData, appended>>
            /\ lastOp' = "performance_update_throws"
    /\ nPerf' = nPerf + 1
    /\ lastArg' = data
    /\ UNCHANGED <<connectionStats, container, connView, notifications,
                   lastUpdate, now, subscribed, socketConnected, emitted,
                   loads, nSignals>>

\* socket.on('new_signal', signal => ...)
new_signal(signal) ==
    /\ subscribed /\ socketConnected
    /\ IF HasDirection(signal)
       THEN /\ container' = addSignalToUI(container, signal)
            /\ lastUpdate' = now
            /\ notifications' =
                 showNotification(notifications,
                                  <<"New", signal.direction, "signal for",
                                    signal.asset>>, "success")
            /\ lastOp' = "new_signal"
       ELSE \* createSignalElement throws on direction.toLowerCase(): nothing
            \* is inserted and the handler ends there
            /\ UNCHANGED <<container, lastUpdate, notifications>>
            /\ lastOp' = "new_signal_throws"
    /\ nSignals' = nSignals + 1
    /\ lastArg' = signal
    /\ UNCHANGED <<signals, connectionStats, performanceData, chartLabels,
                   chartData, distData, connView, perfView, now, subscribed,
                   socketConnected, emitted, loads, nPerf, appended>>

\* The connect handler calling loadInitialData as well.
connect_reloads ==
    /\ subscribed /\ ~socketConnected
    /\ socketConnected' = TRUE
    /\ emitted' = emitted + 1
    /\ loads' = Append(loads, NewLoad)
    /\ lastOp' = "connect"
    /\ lastArg' = <<>>
    /\ UNCHANGED <<signals, connectionStats, performanceData, chartLabels,
                   chartData, distData, container, connView, perfView,
                   notifications, lastUpdate, now, subscribed, nSignals,
                   nPerf, appended>>

\* socket.on('connect', ...): emits 'get_initial_data' on the socket.
connect ==
    /\ subscribed /\ ~socketConnected
    /\ socketConnected' = TRUE
    /\ emitted' = emitted + 1
    /\ lastOp' = "connect"
    /\ lastArg' = <<>>
    /\ UNCHANGED <<signals, connectionStats, performanceData, chartLabels,
                   chartData, distData, container, connView, perfView,
                   notifications, lastUpdate, now, subscribed, loads,
                   nSignals, nPerf, appended>>

\* The disconnect handler emptying the signal log.
disconnect_clears ==
    /\ subscribed /\ socketConnected
    /\ socketConnected' = FALSE
    /\ connView' = updateConnectionStatus(connectionStats)
    /\ signals' = <<>>
    /\ container' = <<>>
    /\ lastOp' = "disconnect"
    /\ lastArg' = <<>>
    /\ UNCHANGED <<connectionStats, performanceData, chartLabels, chartData,
                   distData, perfView, notifications, lastUpdate, now,
                   subscribed, emitted, loads, nSignals, nPerf, appended>>

\* socket.on('disconnect', ...): renders connectionStats again.
disconnect ==
    /\ subscribed /\ socketConnected
    /\ socketConnected' = FALSE
    /\ connView' = updateConnectionStatus(connectionStats)
    /\ lastOp' = "disconnect"
    /\ lastArg' = <<>>
    /\ UNCHANGED <<signals, connectionStats, performanceData, chartLabels,
                   chartData, distData, container, perfView, notifications,
                   lastUpdate, now, subscribed, emitted, loads, nSignals,
                   nPerf, appended>>

(***************************************************************************)
(* DOM handlers (setupEventListeners).                                     *)
(***************************************************************************)
\* Click on #refresh-btn: loadInitialData is called again.
refresh_click ==
    /\ loads' = Append(loads, NewLoad)
    /\ lastOp' = "refresh_click"
    /\ lastArg' = <<>>
    /\ UNCHANGED <<signals, connectionStats, performanceData, chartLabels,
                   chartData, distData, container, connView, perfView,
                   notifications, lastUpdate, now, subscribed,
                   socketConnected, emitted, nSignals, nPerf, appended>>

(***************************************************************************)
(* Strings, as sequences of characters, for the filter and the search.     *)
(***************************************************************************)
\* The characters of the assets, directions and timeframes of the model.
Text(s) ==
    CASE s = "EURUSD" -> <<"E", "U", "R", "U", "S", "D">>
      [] s = "GBPUSD" -> <<"G", "B", "P", "U", "S", "D">>
      [] s = "CALL" -> <<"C", "A", "L", "L">>
      [] s = "PUT" -> <<"P", "U", "T">>
      [] s = "HOLD" -> <<"H", "O", "L", "D">>
      [] s = "1m" -> <<"1", "m">>
      [] s = "5m" -> <<"5", "m">>

\* String.prototype.toLowerCase, character by character.
LowerChar(c) ==
    CASE c = "A" -> "a" [] c = "B" -> "b" [] c = "C" -> "c" [] c = "D" -> "d"
      [] c = "E" -> "e" [] c = "G" -> "g" [] c = "H" -> "h" [] c = "L" -> "l"
      [] c = "M" -> "m" [] c = "O" -> "o" [] c = "P" -> "p" [] c = "R" -> "r"
      [] c = "S" -> "s" [] c = "T" -> "t" [] c = "U" -> "u" [] OTHER -> c

toLowerCase(str) == [i \in 1..Len(str) |-> LowerChar(str[i])]

\* String.prototype.includes: needle occurs in hay as a substring.
includes(hay, needle) ==
    \E k \in 0..(Len(hay) - Len(needle)) :
        SubSeq(hay, k + 1, k + Len(needle)) = needle

\* The value 'all' of the asset filter.
AllAssets == <<"a", "l", "l">>

\* filterSignals treating 'all' as the name of an asset.
FilterByAsset_ignoresAll(sigs, asset) ==
    LET Same(s) == Text(s.asset) = asset
    IN  SelectSeq(sigs, Same)

\* filterSignals: this.signals itself for 'all', else the signals whose
\* asset is strictly equal to the value.
FilterByAsset(sigs, asset) ==
    LET Same(s) == Text(s.asset) = asset
    IN  IF asset = AllAssets THEN sigs ELSE SelectSeq(sigs, Same)

\* searchSignals: the signals whose asset or direction, lower-cased,
\* includes the lower-cased query, or whose timeframe includes the query.
SearchByQuery(sigs, query) ==
    LET Match(s) ==
            \/ includes(toLowerCase(Text(s.asset)), toLowerCase(query))
            \/ includes(toLowerCase(Text(s.direction)), toLowerCase(query))
            \/ includes(Text(s.timeframe), query)
    IN  SelectSeq(sigs, Match)

\* Values of the #filter-asset element.
FilterInputs ==
    {AllAssets, Text("EURUSD"), Text("GBPUSD"), toLowerCase(Text("EURUSD"))}

\* Values of the #search-signals element.
QueryInputs ==
    {<<>>, <<"e", "u", "r">>, <<"U", "S", "D">>, <<"p", "u", "t">>,
     <<"5", "m">>, <<"M">>}

\* Change of #filter-asset with this.signals replaced by the filtered list.
filterSignals_mutates(asset) ==
    /\ signals' = FilterByAsset(signals, asset)
    /\ container' = displaySignals(signals')
    /\ lastOp' = "filterSignals"
    /\ lastArg' = asset
    /\ UNCHANGED <<connectionStats, performanceData, chartLabels, chartData,
                   distData, connView, perfView, notifications, lastUpdate,
                   now, subscribed, socketConnected, emitted, loads, nSignals,
                   nPerf, appended>>

\* Change of #filter-asset: filterSignals(e.target.value).
filterSignals(asset) ==
    /\ container' = displaySignals(FilterByAsset(signals, asset))
    /\ lastOp' = "filterSignals"
    /\ lastArg' = asset
    /\ UNCHANGED <<signals, connectionStats, performanceData, chartLabels,
                   chartData, distData, connView, perfView, notifications,
                   lastUpdate, now, subscribed, socketConnected, emitted,
                   loads, nSignals, nPerf, appended>>

\* Input in #search-signals: searchSignals(e.target.value).
searchSignals(query) ==
    /\ container' = displaySignals(SearchByQuery(signals, query))
    /\ lastOp' = "searchSignals"
    /\ lastArg' = query
    /\ UNCHANGED <<signals, connectionStats, performanceData, chartLabels,
                   chartData, distData, connView, perfView, notifications,
                   lastUpdate, now, subscribed, socketConnected, emitted,
                   loads, nSignals, nPerf, appended>>

(***************************************************************************)
(* loadInitialData, one action per resumption after an await.              *)
(***************************************************************************)
\* await fetch(url) resolves: the load goes on to await response.json().
fetch_resolved(l) ==
    /\ loads[l].pc \in {"fetch_signals", "fetch_performance",
                        "fetch_connection"}
    /\ loads' = [loads EXCEPT ![l].pc =
                   CASE loads[l].pc = "fetch_signals" -> "json_signals"
                     [] loads[l].pc = "fetch_performance" -> "json_performance"
                     [] loads[l].pc = "fetch_connection" -> "json_connection"]
    /\ lastOp' = "fetch_resolved"
    /\ lastArg' = <<>>
    /\ UNCHANGED <<signals, connectionStats, performanceData, chartLabels,
                   chartData, distData, container, connView, perfView,
                   notifications, lastUpdate, now, subscribed,
                   socketConnected, emitted, nSignals, nPerf, appended>>

\* The signals body arrives: this.signals replaced, displaySignals, then
\* fetch('/api/performance').
signals_loaded(l, data) ==
    /\ loads[l].pc = "json_signals"
    /\ signals' = data
    /\ container' = displaySignals(data)
    /\ loads' = [loads EXCEPT ![l] =
                   [pc |-> "fetch_performance",
                    issued |-> @.issued \cup {"/api/performance"},
                    applied |-> @.applied \cup {"/api/signals"},
                    failed |-> @.failed]]
    /\ lastOp' = "signals_loaded"
    /\ lastArg' = data
    /\ UNCHANGED <<connectionStats, performanceData, chartLabels, chartData,
                   distData, connView, perfView, notifications, lastUpdate,
                   now, subscribed, socketConnected, emitted, nSignals, nPerf,
                   appended>>

\* The performance body arrives: this.performanceData replaced,
\* updatePerformanceStats, then fetch('/api/connection').
performance_loaded(l, data) ==
    /\ loads[l].pc = "json_performance"
    /\ performanceData' = data
    /\ IF HasProfit(data)
       THEN /\ perfView' = updatePerformanceStats(data)
            /\ loads' = [loads EXCEPT ![l] =
                           [pc |-> "fetch_connection",
                            issued |-> @.issued \cup {"/api/connection"},
                            applied |-> @.applied \cup {"/api/performance"},
                            failed |-> @.failed]]
            /\ notifications' = notifications
            /\ lastOp' = "performance_loaded"
       ELSE \* updatePerformanceStats throws into the catch block
            /\ perfView' = updatePerformanceStatsThrows(perfView, data)
            /\ loads' = [loads EXCEPT ![l] =
                           [pc |-> "failed", issued |-> @.issued,
                            applied |-> @.applied,
                            failed |-> "/api/performance"]]
            /\ notifications' =
                 showNotification(notifications, <<"Error loading data">>,
                                  "error")
            /\ lastOp' = "performance_loaded_throws"
    /\ lastArg' = data
    /\ UNCHANGED <<signals, connectionStats, chartLabels, chartData, distData,
                   container, connView, lastUpdate, now, subscribed,
                   socketConnected, emitted, nSignals, nPerf, appended>>

\* The connection body arrives: this.connectionStats replaced,
\* updateConnectionStatus, updateCharts; the load is over.
connection_loaded(l, data) ==
    /\ loads[l].pc = "json_connection"
    /\ connectionStats' = data
    /\ connView' = updateConnectionStatus(data)
    /\ signals' = signals
    /\ updateCharts(performanceData)
    /\ loads' = [loads EXCEPT ![l] =
                   [pc |-> "done", issued |-> @.issued,
                    applied |-> @.applied \cup {"/api/connection"},
                    failed |-> @.failed]]
    /\ lastOp' = "connection_loaded"
    /\ lastArg' = data
    /\ UNCHANGED <<performanceData, container, perfView, notifications,
                   lastUpdate, now, subscribed, socketConnected, emitted,
                   nSignals, nPerf>>

\* The catch block emptying the signal log.
load_rejected_clears(l) ==
    /\ loads[l].pc \in InProgress
    /\ notifications' =
         showNotification(notifications, <<"Error loading data">>, "error")
    /\ signals' = <<>>
    /\ container' = <<>>
    /\ loads' = [loads EXCEPT ![l] =
                   [pc |-> "failed", issued |-> @.issued,
                    applied |-> @.applied, failed |-> Awaited(@.pc)]]
    /\ lastOp' = "load_rejected"
    /\ lastArg' = <<>>
    /\ UNCHANGED <<connectionStats, performanceData, chartLabels, chartData,
                   distData, connView, perfView, lastUpdate, now, subscribed,
                   socketConnected, emitted, nSignals, nPerf, appended>>

\* A try/catch around each request: a rejected signals or performance
\* request is notified and the load goes on with the next request.
load_rejected_continues(l) ==
    /\ loads[l].pc \in InProgress
    /\ notifications' =
         showNotification(notifications, <<"Error loading data">>, "error")
    /\ loads' = [loads EXCEPT ![l] =
                   CASE Awaited(@.pc) = "/api/signals" ->
                          [pc |-> "fetch_performance",
                           issued |-> @.issued \cup {"/api/performance"},
                           applied |-> @.applied, failed |-> Awaited(@.pc)]
                     [] Awaited(@.pc) = "/api/performance" ->
                          [pc |-> "fetch_connection",
                           issued |-> @.issued \cup {"/api/connection"},
                           applied |-> @.applied, failed |-> Awaited(@.pc)]
                     [] OTHER ->
                          [pc |-> "failed", issued |-> @.issued,
                           applied |-> @.applied, failed |-> Awaited(@.pc)]]
    /\ lastOp' = "load_rejected"
    /\ lastArg' = <<>>
    /\ UNCHANGED <<signals, connectionStats, performanceData, chartLabels,
                   chartData, distData, container, connView, perfView,
                   lastUpdate, now, subscribed, socketConnected, emitted,
                   nSignals, nPerf, appended>>

\* The awaited promise (fetch or json) is rejected: the catch block shows
\* one error notification and the load is over.
load_rejected(l) ==
    /\ loads[l].pc \in InProgress
    /\ notifications' =
         showNotification(notifications, <<"Error loading data">>, "error")
    /\ loads' = [loads EXCEPT ![l] =
                   [pc |-> "failed", issued |-> @.issued,
                    applied |-> @.applied, failed |-> Awaited(@.pc)]]
    /\ lastOp' = "load_rejected"
    /\ lastArg' = <<>>
    /\ UNCHANGED <<signals, connectionStats, performanceData, chartLabels,
                   chartData, distData, container, connView, perfView,
                   lastUpdate, now, subscribed, socketConnected, emitted,
                   nSignals, nPerf, appended>>

(***************************************************************************)
(* Time and timers.                                                        *)
(***************************************************************************)
\* The clock advances by one unit or by one unit less than the delay of the
\* notification timer.
TickSteps == {1, NotificationTTL - 1}

\* Number of advances that brought the clock to n.
TickCount(n) == (n \div (NotificationTTL - 1)) + (n % (NotificationTTL - 1))

\* Time passes, up to the next removal timer that is due: a timer whose
\* delay has elapsed runs before the clock moves on.
Tick(d) ==
    /\ \A i \in 1..Len(notifications) : now + d <= notifications[i].expiresAt
    /\ now' = now + d
    /\ lastOp' = "tick"
    /\ lastArg' = <<>>
    /\ UNCHANGED <<signals, connectionStats, performanceData, chartLabels,
                   chartData, distData, container, connView, perfView,
                   notifications, lastUpdate, subscribed, socketConnected,
                   emitted, loads, nSignals, nPerf, appended>>

\* The removal timer of badge i fires: the badge is removed from the body.
notification_timeout(i) ==
    /\ notifications[i].expiresAt <= now
    /\ notifications' = [j \in 1..(Len(notifications) - 1) |->
                           IF j < i THEN notifications[j]
                           ELSE notifications[j + 1]]
    /\ lastOp' = "notification_timeout"
    /\ lastArg' = <<>>
    /\ UNCHANGED <<signals, connectionStats, performanceData, chartLabels,
                   chartData, distData, container, connView, perfView,
                   lastUpdate, now, subscribed, socketConnected, emitted,
                   loads, nSignals, nPerf, appended>>

(***************************************************************************)
(* Specifications.                                                         *)
(***************************************************************************)
\* The steps of the loads, with the bodies the three requests may return.
LoadStep(signalBodies, performanceBodies, connectionBodies) ==
    \E l \in 1..Len(loads) :
        \/ fetch_resolved(l)
        \/ \E data \in signalBodies : signals_loaded(l, data)
        \/ \E data \in performanceBodies : performance_loaded(l, data)
        \/ \E data \in connectionBodies : connection_loaded(l, data)
        \/ load_rejected(l)

\* The startup load and the socket handlers, with few events of each kind.
Next ==
    \/ \E stats \in ConnPayloads : connection_update(stats)
    \/ \E data \in PerfPayloads : nPerf < SomePerf /\ performance_update(data)
    \/ nSignals < SomePushes /\ new_signal(DefaultSignal(nSignals + 1))
    \/ emitted < MaxEmits /\ connect
    \/ disconnect
    \/ LoadStep(Snapshots(nSignals), PerfPayloads, ConnPayloads)

Spec == Init /\ [][Next]_vars

\* The loads alone: the startup load and the loads of the refresh button.
NextLoad ==
    \/ Len(loads) < MaxLoads /\ refresh_click
    \/ LoadStep(Snapshots(nSignals), PerfPayloads, ConnPayloads)

SpecLoad == Init /\ [][NextLoad]_vars

\* The performance chart: the startup load and many performance_update
\* events.
NextChart ==
    \/ \E data \in PerfInputs(nPerf) :
           nPerf < MaxPerf /\ performance_update(data)
    \/ emitted < MaxEmits /\ connect
    \/ LoadStep({<<>>}, PerfPayloads, {Conn(TRUE, TRUE, 5, 3)})

SpecChart == Init /\ [][NextChart]_vars

\* The visible signal log: the startup load and many new_signal events.
NextPush ==
    \/ \E signal \in PushInputs(nSignals + 1) :
           nSignals < MaxPushes /\ new_signal(signal)
    \/ emitted < MaxEmits /\ connect
    \/ LoadStep(Snapshots(nSignals), {Perf(0, 0, 0, 0, 0)},
                {Conn(TRUE, TRUE, 5, 3)})

SpecPush == Init /\ [][NextPush]_vars

\* Repeated deliveries: the startup load, connection_update events and a
\* few performance_update events, any of which may repeat the previous one.
NextIdem ==
    \/ \E stats \in ConnPayloads : connection_update(stats)
    \/ \E data \in PerfPayloads : nPerf < FreePerf /\ performance_update(data)
    \/ emitted < MaxEmits /\ connect
    \/ LoadStep({<<>>, OldSignals}, PerfPayloads, ConnPayloads)

SpecIdem == Init /\ [][NextIdem]_vars

\* Payloads with a missing field, in push events and in the performance
\* body.
NextMalformed ==
    \/ \E data \in PerfPayloads \cup {MalformedPerf} :
           nPerf < SomePerf /\ performance_update(data)
    \/ \E signal \in {DefaultSignal(nSignals + 1),
                       MalformedSignal(nSignals + 1)} :
           nSignals < SomePushes /\ new_signal(signal)
    \/ emitted < MaxEmits /\ connect
    \/ LoadStep(Snapshots(nSignals), PerfPayloads \cup {MalformedPerf},
                ConnPayloads)

SpecMalformed == Init /\ [][NextMalformed]_vars

\* The filter and the search, on the logs the startup load may bring and
\* with a few new_signal events.
NextFilter ==
    \/ \E asset \in FilterInputs : filterSignals(asset)
    \/ \E query \in QueryInputs : searchSignals(query)
    \/ nSignals < SomePushes /\ new_signal(DefaultSignal(nSignals + 1))
    \/ emitted < MaxEmits /\ connect
    \/ LoadStep(WideSnapshots(nSignals), {Perf(0, 0, 0, 0, 0)},
                {Conn(TRUE, TRUE, 5, 3)})

SpecFilter == Init /\ [][NextFilter]_vars

\* The pull and the push path together: loads whose signals body races
\* with the new_signal events.
NextReconcile ==
    \/ nSignals < SomePushes /\ new_signal(DefaultSignal(nSignals + 1))
    \/ emitted < MaxEmits /\ connect
    \/ Len(loads) < MaxLoads /\ refresh_click
    \/ LoadStep(RacingSnapshots(nSignals), {Perf(0, 0, 0, 0, 0)},
                {Conn(TRUE, TRUE, 5, 3)})

SpecReconcile == Init /\ [][NextReconcile]_vars

\* Notifications and their timers.
NextTime ==
    \/ nSignals < SomePushes /\ new_signal(DefaultSignal(nSignals + 1))
    \/ emitted < MaxEmits /\ connect
    \/ Len(loads) < MaxLoads /\ refresh_click
    \/ \E l \in 1..Len(loads) : load_rejected(l)
    \/ \E d \in TickSteps : TickCount(now) < MaxTicks /\ Tick(d)
    \/ \E i \in 1..Len(notifications) : notification_timeout(i)

SpecTime == Init /\ [][NextTime]_vars

(***************************************************************************)
(* Properties.                                                             *)
(***************************************************************************)
PushEvents == {"connection_update", "performance_update", "new_signal"}

\* Number of loads that have issued a request to url.
IssuedCount(ls, url) == Cardinality({l \in 1..Len(ls) : url \in ls[l].issued})

\* The requests loadInitialData makes before the request to url.
Before(url) ==
    CASE url = "/api/signals" -> {}
      [] url = "/api/performance" -> {"/api/signals"}
      [] url = "/api/connection" -> {"/api/signals", "/api/performance"}

\* C1: after any number N of appends to the performance chart, the chart
\* holds min(N, 20) points, the last min(N, 20) appended values in append
\* order, with one label per point.
C1_RollingWindow ==
    /\ Len(chartData) = Min(Len(appended), ChartCapacity)
    /\ chartData = LastN(appended, ChartCapacity)
    /\ Len(chartLabels) = Len(chartData)

\* C1 witness: more than 20 values were appended, the last one by a
\* performance_update event.
C1_Witness ==
    /\ lastOp = "performance_update"
    /\ Len(appended) > ChartCapacity + 1
    /\ chartData[1] = appended[Len(appended) - ChartCapacity + 1]

\* C2: a new_signal event applied to a visible log of at most 20 rows puts
\* the pushed signal at the head, keeps the rows that were there in their
\* order behind it, and drops the last row when the log was full; the log
\* then has at most 20 rows, newest first with no pushed signal missing
\* among them.
C2_VisibleLogNewestFirst ==
    /\ [](/\ Len(container) <= VisibleCapacity
          /\ \A i \in 1..(Len(container) - 1) :
                /\ container[i].time > container[i + 1].time
                /\ container[i + 1].time >= 1 =>
                      container[i].time = container[i + 1].time + 1)
    /\ [][(lastOp' = "new_signal" /\ Len(container) <= VisibleCapacity) =>
            /\ Len(container') = Min(Len(container) + 1, VisibleCapacity)
            /\ container'[1].time = nSignals'
            /\ \A i \in 2..Len(container') : container'[i] = container[i - 1]
         ]_vars

\* C2 witness: at least 21 signals were pushed in a row and the log holds
\* the 20 most recent of them.
C2_Witness ==
    /\ lastOp = "new_signal"
    /\ nSignals > VisibleCapacity
    /\ Len(container) = VisibleCapacity
    /\ container[1].time = nSignals
    /\ container[VisibleCapacity].time = nSignals - VisibleCapacity + 1

\* C3: every signal recorded through a new_signal event is also in the
\* backing history this.signals, which the distribution counts, the filter
\* and the search read: every row of the visible log renders a signal of
\* the history, and the CALL count of the distribution chart covers the CALL
\* rows whenever the chart has just been updated.
C3_PushedSignalsInHistory ==
    /\ \A i \in 1..Len(container) :
          \E j \in 1..Len(signals) :
              createSignalElement(signals[j]) = container[i]
    /\ lastOp \in {"connection_loaded", "performance_update"} =>
          distData[1] >= Cardinality({i \in 1..Len(container) :
                                          container[i].direction = "CALL"})

\* C4 as stated: the three pull requests of a load are issued concurrently,
\* so whenever a response of a load has been applied all three requests of
\* that load have been issued.
C4_PullsConcurrent ==
    \A l \in 1..Len(loads) :
        loads[l].applied # {} => loads[l].issued = Urls

\* C4 amended: the three pull requests of a load are issued one after the
\* other, in the order signals, performance, connection: a request is issued
\* only once the responses of the requests before it have been applied, and
\* a load waits on at most one request.
C4_PullsSequential ==
    \A l \in 1..Len(loads) :
        /\ \A url \in loads[l].issued : Before(url) \subseteq loads[l].applied
        /\ loads[l].applied \subseteq loads[l].issued
        /\ Cardinality(loads[l].issued \ loads[l].applied) <= 1
        /\ loads[l].pc \in InProgress =>
              loads[l].issued \ loads[l].applied = {Awaited(loads[l].pc)}

\* C4 witness: a load has issued its third request, after the responses of
\* the first two were applied.
C4_Witness ==
    \E l \in 1..Len(loads) :
        /\ loads[l].pc = "fetch_connection"
        /\ loads[l].issued = Urls
        /\ loads[l].applied = {"/api/signals", "/api/performance"}

C6_RejectedPullKeepsState ==
    /\ [](/\ Cardinality({l \in 1..Len(loads) : loads[l].pc = "failed"}) =
               Cardinality({i \in 1..Len(notifications) :
                                notifications[i].type = "error"})
          /\ \A l \in 1..Len(loads) :
                loads[l].pc = "failed" => Awaited(loads[l].pc) = "none")
    /\ [][lastOp' = "load_rejected" =>
            /\ UNCHANGED <<signals, performanceData, connectionStats,
                           container, chartLabels, chartData, distData,
                           connView, perfView>>
            /\ Len(notifications') = Len(notifications) + 1
            /\ notifications'[Len(notifications')].type = "error"
            /\ SubSeq(notifications', 1, Len(notifications)) = notifications
            /\ Len(loads') = Len(loads)
            /\ \A l \in 1..Len(loads) : loads'[l].issued = loads[l].issued
         ]_vars

\* C6 witness: the connection request of a load was rejected after a
\* non-empty signal history had been loaded, and the history is still there.
C6_Witness ==
    /\ lastOp = "load_rejected"
    /\ \E l \in 1..Len(loads) :
          loads[l].pc = "failed" /\ loads[l].failed = "/api/connection"
    /\ Len(signals) > 0
    /\ Len(notifications) = 1

\* C7 as stated: when one pull of a load fails, the responses of the other
\* two are still applied.
C7_FailuresIndividual ==
    \A l \in 1..Len(loads) :
        loads[l].pc = "failed" => loads[l].applied = Urls \ {loads[l].failed}

\* C7 amended: a failed pull ends the load: the responses of the pulls
\* before it stay applied, the pulls after it are never issued, and the
\* charts are updated only by the loads that got all three responses.
C7_FailureEndsLoad ==
    /\ \A l \in 1..Len(loads) :
          loads[l].pc = "failed" =>
              /\ loads[l].failed \in Urls
              /\ loads[l].applied = Before(loads[l].failed)
              /\ loads[l].issued = loads[l].applied \cup {loads[l].failed}
    /\ Len(appended) =
          Cardinality({l \in 1..Len(loads) : loads[l].pc = "done"})

\* C7 witness: the signals pull of a load failed, and neither the
\* performance nor the connection pull was made.
C7_Witness ==
    \E l \in 1..Len(loads) :
        /\ loads[l].pc = "failed"
        /\ loads[l].failed = "/api/signals"
        /\ loads[l].issued = {"/api/signals"}
        /\ loads[l].applied = {}

\* C8: after a disconnect event is handled, the tracked connection state is
\* disconnected and the connection status view shows the disconnected
\* indicator.
C8_DisconnectShown ==
    lastOp = "disconnect" =>
        /\ ~connectionStats.websocket_connected
        /\ connView.connectionStatus = "disconnected"

\* C9: handling a disconnect event leaves the signal history, the visible
\* signal log, the performance snapshot and the performance chart unchanged.
C9_DisconnectKeepsStores ==
    [][lastOp' = "disconnect" =>
          UNCHANGED <<signals, container, performanceData, chartLabels,
                      chartData>>]_vars

\* C9 witness: a disconnect was handled while the history, the visible log
\* and the chart were not empty.
C9_Witness ==
    /\ lastOp = "disconnect"
    /\ Len(signals) > 0
    /\ Len(container) > Len(signals)
    /\ Len(chartData) > 0

\* C10 as stated: a connect event that follows a disconnect issues one more
\* request to /api/connection and to /api/performance, and none to
\* /api/signals.
C10_ReconnectRepulls ==
    [][(lastOp' = "connect" /\ emitted >= 1) =>
          /\ IssuedCount(loads', "/api/connection") =
                IssuedCount(loads, "/api/connection") + 1
          /\ IssuedCount(loads', "/api/performance") =
                IssuedCount(loads, "/api/performance") + 1
          /\ IssuedCount(loads', "/api/signals") =
                IssuedCount(loads, "/api/signals")]_vars

\* C10 amended: a connect event, the first one or one that follows a
\* disconnect, emits one get_initial_data message on the push channel and
\* issues no pull request at all.
C10_ConnectEmitsOnly ==
    [][lastOp' = "connect" =>
          /\ emitted' = emitted + 1
          /\ loads' = loads
          /\ socketConnected']_vars

\* C10 witness: the channel reconnected after a disconnect.
C10_Witness ==
    /\ lastOp = "connect"
    /\ emitted >= 2
    /\ socketConnected

\* C11: a connection_update event replaces the tracked connection state by
\* its payload, renders it, and leaves the signal history, the visible log,
\* the performance snapshot, the performance chart and the notifications as
\* they were.
C11_ConnectionUpdateFrame ==
    [][lastOp' = "connection_update" =>
          /\ connectionStats' \in ConnPayloads
          /\ connView' = updateConnectionStatus(connectionStats')
          /\ UNCHANGED <<signals, container, performanceData, perfView,
                         chartLabels, chartData, appended, distData,
                         notifications>>]_vars

\* C11 witness: a connection_update event was applied while the visible log,
\* the chart and the notifications were not empty.
C11_Witness ==
    /\ lastOp = "connection_update"
    /\ connectionStats = Conn(TRUE, TRUE, 5, 3)
    /\ connView.connectionStatus = "connected"
    /\ Len(container) > 0
    /\ Len(chartData) > 0
    /\ Len(notifications) > 0

\* C15: a performance_update event replaces the performance snapshot by its
\* payload (no field of the previous snapshot survives) and appends exactly
\* one point, the total_profit of the payload, to the performance chart;
\* connection_update and new_signal events append no point.
C15_OnePointPerPerformanceUpdate ==
    /\ [][lastOp' = "performance_update" =>
            /\ performanceData' \in PerfPayloads
            /\ appended' = Append(appended, performanceData'.total_profit)
            /\ Len(chartLabels') = Len(chartData')
            /\ chartData' = LastN(Append(chartData,
                                         performanceData'.total_profit),
                                  ChartCapacity)]_vars
    /\ [][lastOp' \in {"connection_update", "new_signal"} =>
            UNCHANGED <<chartLabels, chartData, appended>>]_vars

\* C15 witness: a performance_update event added the second point of the
\* chart, its total_profit, after the load had added the first.
C15_Witness ==
    /\ lastOp = "performance_update"
    /\ performanceData = Perf(10, 6, 4, 1250, 2)
    /\ Len(chartData) = 2
    /\ chartData[2] = 1250

\* The same connection_update or performance_update payload is delivered a
\* second time, right after its first delivery.
SecondDelivery ==
    /\ lastOp \in {"connection_update", "performance_update"}
    /\ lastOp' = lastOp
    /\ lastArg' = lastArg

\* C12 as stated: delivering the same ConnectionState or the same
\* PerformanceSnapshot a second time leaves every store, view and chart as
\* it was after the first delivery.
C12_Idempotent ==
    [][SecondDelivery =>
          UNCHANGED <<connectionStats, connView, performanceData, perfView,
                      chartLabels, chartData, distData>>]_vars

\* C12 amended: a second delivery of the same ConnectionState changes
\* nothing; a second delivery of the same PerformanceSnapshot leaves the
\* snapshot, the rendered statistics and the distribution counts as they
\* were, and appends one more point, equal to the previous one, to the
\* performance chart.
C12_IdempotentButChart ==
    [][SecondDelivery =>
          /\ UNCHANGED <<connectionStats, connView, performanceData, perfView,
                         distData, signals, container, notifications>>
          /\ lastOp' = "connection_update" =>
                UNCHANGED <<chartLabels, chartData, appended>>
          /\ lastOp' = "performance_update" =>
                /\ Len(appended') = Len(appended) + 1
                /\ appended'[Len(appended')] = appended[Len(appended)]
                /\ chartData'[Len(chartData')] = chartData[Len(chartData)]
       ]_vars

\* C12 witness: the same PerformanceSnapshot was delivered twice in a row
\* and the chart holds its total_profit twice.
C12_Witness ==
    /\ lastOp = "performance_update"
    /\ nPerf = 2
    /\ performanceData = Perf(10, 6, 4, 1250, 2)
    /\ chartData = <<1250, 1250>>

\* C13: every visible notification was created at most 3000 time units ago
\* and none outlives its 3000 units; every call of showNotification adds one
\* badge behind the visible ones, identical message or not; a badge is
\* removed only by its own timer, not before its 3000 units have elapsed,
\* and the removal leaves the other badges and every store as they were.
C13_NotificationsLiveForTTL ==
    /\ [](\A i \in 1..Len(notifications) :
             /\ notifications[i].expiresAt - NotificationTTL <= now
             /\ now <= notifications[i].expiresAt)
    /\ [][IF lastOp' \in {"new_signal", "load_rejected"}
          THEN /\ Len(notifications') = Len(notifications) + 1
               /\ SubSeq(notifications', 1, Len(notifications)) = notifications
               /\ notifications'[Len(notifications')].expiresAt =
                     now + NotificationTTL
          ELSE IF lastOp' = "notification_timeout"
          THEN /\ \E i \in 1..Len(notifications) :
                     /\ notifications[i].expiresAt <= now
                     /\ notifications' =
                          SubSeq(notifications, 1, i - 1)
                            \o SubSeq(notifications, i + 1, Len(notifications))
               /\ UNCHANGED <<signals, container, connectionStats,
                              performanceData, chartData, loads, now>>
          ELSE notifications' = notifications]_vars

\* C13 witness: two loads failed, each raised its own (identical) error
\* notification, and 3001 time units later neither is visible.
C13_Witness ==
    /\ now = NotificationTTL + 1
    /\ Cardinality({l \in 1..Len(loads) : loads[l].pc = "failed"}) = 2
    /\ notifications = <<>>

\* Two identical notifications are visible 2999 time units after they were
\* created.
C13_BothVisible ==
    /\ now = NotificationTTL - 1
    /\ Len(notifications) = 2
    /\ notifications[1] = notifications[2]
    /\ notifications[1].expiresAt = NotificationTTL

\* C14: a payload with a missing field is rejected: the handler that gets
\* it does not fail, the performance snapshot keeps a well-formed value, and
\* an error notification is raised for it.
C14_MalformedRejected ==
    /\ lastOp \notin {"performance_update_throws", "new_signal_throws"}
    /\ HasProfit(performanceData)
    /\ lastOp = "performance_loaded_throws" =>
          /\ Len(notifications) > 0
          /\ notifications[Len(notifications)].type = "error"

\* C16: filterSignals and searchSignals leave this.signals, and everything
\* but the rendered list, as they found it, for every asset and query; what
\* they render is a function of the log and of the argument alone, so the
\* same call repeated on an unchanged log renders the same list again.
C16_FilterSearchKeepLog ==
    /\ [][lastOp' \in {"filterSignals", "searchSignals"} =>
             UNCHANGED <<signals, connectionStats, performanceData,
                         chartLabels, chartData, distData, connView, perfView,
                         notifications, loads>>]_vars
    /\ [][(/\ lastOp \in {"filterSignals", "searchSignals"}
           /\ lastOp' = lastOp
           /\ lastArg' = lastArg) => container' = container]_vars
    /\ [](lastOp = "filterSignals" =>
             container = displaySignals(FilterByAsset(signals, lastArg)))
    /\ [](lastOp = "searchSignals" =>
             container = displaySignals(SearchByQuery(signals, lastArg)))

\* C16 witness: a search for 'put' rendered some but not all of the five
\* signals of the log, which is still the log that was loaded.
C16_Witness ==
    /\ lastOp = "searchSignals"
    /\ lastArg = <<"p", "u", "t">>
    /\ signals = MixedSnapshot
    /\ Len(container) = 2

\* The positions of the log whose asset is x.
WithAsset(x) == {i \in 1..Len(signals) : Text(signals[i].asset) = x}

\* The k-th smallest element of a set of positions.
Kth(S, k) == CHOOSE i \in S : Cardinality({j \in S : j < i}) = k - 1

\* C17: the filter 'all' and the empty search render the whole log, in
\* order; the filter for an asset x renders, in log order, exactly the
\* signals whose asset is x.
C17_FilterSearchAlgebra ==
    /\ (lastOp = "filterSignals" /\ lastArg = AllAssets) =>
          container = [i \in 1..Len(signals) |->
                          createSignalElement(signals[i])]
    /\ (lastOp = "searchSignals" /\ lastArg = <<>>) =>
          container = [i \in 1..Len(signals) |->
                          createSignalElement(signals[i])]
    /\ (lastOp = "filterSignals" /\ lastArg # AllAssets) =>
          /\ Len(container) = Cardinality(WithAsset(lastArg))
          /\ \A k \in 1..Len(container) :
                container[k] =
                   createSignalElement(signals[Kth(WithAsset(lastArg), k)])

\* C17 witness: the filter for GBPUSD rendered the second and the fourth of
\* the five signals of the log.
C17_Witness ==
    /\ lastOp = "filterSignals"
    /\ lastArg = Text("GBPUSD")
    /\ signals = MixedSnapshot
    /\ container = <<createSignalElement(MixedSnapshot[2]),
                     createSignalElement(MixedSnapshot[4])>>

\* C18: whenever updateCharts has run, the distribution chart holds the
\* number of CALL, of PUT and of HOLD signals of the log, and the three
\* counts add up to the length of the log.
C18_DistributionCounts ==
    [][lastOp' \in {"performance_update", "connection_loaded"} =>
          /\ distData' =
                <<Cardinality({i \in 1..Len(signals') :
                                  signals'[i].direction = "CALL"}),
                  Cardinality({i \in 1..Len(signals') :
                                  signals'[i].direction = "PUT"}),
                  Cardinality({i \in 1..Len(signals') :
                                  signals'[i].direction = "HOLD"})>>
          /\ distData'[1] + distData'[2] + distData'[3] = Len(signals')
      ]_vars

\* C18 witness: the log holds 3 CALL and 2 PUT signals and the chart shows
\* 3, 2 and 0.
C18_Witness ==
    /\ lastOp = "connection_loaded"
    /\ signals = MixedSnapshot
    /\ distData = <<3, 2, 0>>

\* C19: no signal is rendered twice in the visible signal log, whichever
\* way the body of GET /api/signals and the new_signal events interleave.
C19_NoDuplicateRows ==
    \A i, j \in 1..Len(container) : i # j => container[i] # container[j]

\* C20: the rendered signal log has at most 20 entries in every state.
C20_VisibleLogBounded == Len(container) <= VisibleCapacity

====
